---- MODULE Spec2Model ----
(***************************************************************************)
(* Stop-and-wait reliable data transfer: the sender of src/client.py and   *)
(* the receiver of src/server.py, joined by two unreliable datagram        *)
(* channels (client -> server and server -> client).                       *)
(*                                                                         *)
(* Bytes are numbers 0..255, byte strings are sequences of bytes.  A       *)
(* packet is the triple packet.make() frames: [seq, checksum, data].       *)
(* Time is scaled by 1000: timeout_value 1.0 s is 1000.                    *)
(***************************************************************************)
EXTENDS Integers, Sequences, FiniteSets, TLC

\* ------------------------------------------------------------ bounds
\* Number of application messages of the run (range(20) in the source).
NumMessages == 2
\* Retry budget per message (10 in the source).
max_retries == 4

\* ------------------------------------------------- program constants
SeqModulus == 256
BaseTimeout == 1000
TimeoutCeiling == 5000
BackoffNum == 3
BackoffDen == 2
ChecksumWidth == 8
AsciiZero == 48

VARIABLES
    cpc,            \* sender: position in main()
    message_num,    \* sender: index of the for loop
    seq,            \* sender: current sequence number
    retries,        \* sender: retry counter of the current message
    ack_received,   \* sender: flag of the data loop
    done_received,  \* sender: flag of the termination handshake
    timeout_value,  \* sender: current timer duration (scaled)
    mytimer,        \* sender: the Timer object [duration, running]
    pkt,            \* sender: the packet built for the current message
    spc,            \* receiver: "recv" while serving, "closed" after break
    expected_seq,   \* receiver: next sequence accepted as new
    c2s,            \* packets in flight, client -> server
    s2c,            \* packets in flight, server -> client
    aborted,        \* history: the data loop left by the break of line 120
    sent,           \* history: message index -> packets transmitted for it
    txCount,        \* history: transmissions of the current message so far
    verified_seqs,  \* history: sequence fields of the replies that passed verification
    acked_msgs,     \* history: data message indices the sender treated as ACKed
    done_runs,      \* history: number of times the finally block was entered
    accepted,       \* history: payloads the receiver accepted as new, in order
    lastRx,         \* history: what the receiver's last step saw and did
    csock,          \* sender: the datagram socket, "open" or "closed"
    ssock,          \* receiver: the datagram socket, "open" or "closed"
    exit_status,    \* sender: exit status of the process, -1 while it runs
    pending,        \* sender: an exception waits for the finally block to end
    txTotal,        \* history: transmissions of the whole run (-1: not counted)
    lastReply       \* history: the reply the current wait loop last dropped

vars == <<cpc, message_num, seq, retries, ack_received, done_received,
          timeout_value, mytimer, pkt, spc, expected_seq, c2s, s2c,
          aborted, sent, txCount, verified_seqs, acked_msgs, done_runs,
          accepted, lastRx, csock, ssock, exit_status, pending, txTotal,
          lastReply>>

clientVars == <<cpc, message_num, seq, retries, ack_received, done_received,
                timeout_value, mytimer, pkt, aborted, sent, txCount,
                verified_seqs, acked_msgs, done_runs, csock, exit_status,
                pending, txTotal, lastReply>>

serverVars == <<spc, expected_seq, accepted, lastRx, ssock>>

\* Index of the termination message in sent and txCount.
DoneIdx == NumMessages

\* ------------------------------------------------------ byte strings
\* "Message-", "-Seq-", "DONE", "ACK-" as UTF-8 bytes.
MessagePrefix == <<77, 101, 115, 115, 97, 103, 101, 45>>
SeqInfix == <<45, 83, 101, 113, 45>>
DoneBytes == <<68, 79, 78, 69>>
AckPrefix == <<65, 67, 75, 45>>

\* str(n).encode('utf-8') for a natural number n.
RECURSIVE DecimalBytes(_)
DecimalBytes(n) ==
    IF n < 10 THEN <<AsciiZero + n>>
    ELSE Append(DecimalBytes(n \div 10), AsciiZero + (n % 10))

\* Number of 1 bits of a natural number.
RECURSIVE Ones(_)
Ones(b) == IF b = 0 THEN 0 ELSE (b % 2) + Ones(b \div 2)

\* bin(byte).count('1') for every byte value.
BitCount == [b \in 0..255 |-> Ones(b)]

\* sum(bin(byte).count('1') for byte in data_bytes), over the first n bytes.
RECURSIVE BitSumTo(_, _)
BitSumTo(data, n) ==
    IF n = 0 THEN 0 ELSE BitCount[data[n]] + BitSumTo(data, n - 1)

BitSum(data) == BitSumTo(data, Len(data))

\* str(n).zfill(8).encode('utf-8'): zfill pads on the left and never truncates.
ZFill(n) ==
    LET d == DecimalBytes(n)
    IN  IF Len(d) >= ChecksumWidth THEN d
        ELSE [i \in 1..(ChecksumWidth - Len(d)) |-> AsciiZero] \o d

\* create_checksum(seq, data): the digest ignores seq.
create_checksum(s, data) == ZFill(BitSum(data))

\* Variant: only the width of the checksum field is checked.
verify_checksum_width(s, checksum, data) == Len(checksum) = ChecksumWidth

\* verify_checksum(seq, checksum, data)
verify_checksum(s, checksum, data) == checksum = ZFill(BitSum(data))

\* packet.make(seq, checksum, data) and packet.extract(pkt): the frame holds
\* the three fields and extract returns them.
make(s, checksum, data) == [seq |-> s, checksum |-> checksum, data |-> data]

\* f"Message-{message_num}-Seq-{seq}".encode('utf-8')
MessageText(m, s) ==
    MessagePrefix \o DecimalBytes(m) \o SeqInfix \o DecimalBytes(s)

\* f"ACK-{seq}".encode('utf-8')
AckText(s) == AckPrefix \o DecimalBytes(s)

\* The packet the sender builds for data message m at sequence s.
DataPacket(m, s) ==
    make(s, create_checksum(s, MessageText(m, s)), MessageText(m, s))

\* The packet the sender builds for the termination message at sequence s.
DonePacket(s) == make(s, create_checksum(s, DoneBytes), DoneBytes)

\* The acknowledgement the receiver builds for a received sequence s.
AckPacket(s) == make(s, create_checksum(s, AckText(s)), AckText(s))

\* ----------------------------------------------------------- channel
\* The checksum field of p is the digest of its payload (a fact about the
\* datagram, whatever the program makes of it).
Intact(p) == p.checksum = ZFill(BitSum(p.data))

\* One bit k of byte b inverted.
FlipBit(b, k) ==
    IF (b \div (2 ^ k)) % 2 = 1 THEN b - (2 ^ k) ELSE b + (2 ^ k)

\* The alterations considered: the low bit of a byte inverted, in the
\* sequence field, in the last byte of the checksum field or in the last
\* byte of the payload.
FlipBits == {0}

Altered(p) ==
    {[p EXCEPT !.seq = FlipBit(p.seq, k)] : k \in FlipBits}
    \cup {[p EXCEPT !.checksum[Len(p.checksum)] = FlipBit(@, k)] : k \in FlipBits}
    \cup {[p EXCEPT !.data[Len(p.data)] = FlipBit(@, k)] : k \in FlipBits}

\* What a receive of p can return on a channel whose alterations are all
\* caught by the checksum: p itself or an altered copy that fails verification.
Detected(p) == {p} \cup {q \in Altered(p) : ~Intact(q)}

\* What a receive of p can return on a channel that may alter any field.
Corrupting(p) == {p} \cup Altered(p)

\* What a receive of p can return, on either kind of channel.
InTransit(p, undetected) == IF undetected THEN Corrupting(p) ELSE Detected(p)

\* udt.send(pkt, sock, addr): the datagram joins those in flight.
udt_send(chan, p) == chan \cup {p}

\* ------------------------------------------------------------- timer
\* Timer(duration), start() and stop() of the timer module.
Timer(duration) == [duration |-> duration, running |-> FALSE]
TimerStart(t) == [t EXCEPT !.running = TRUE]
TimerStop(t) == [t EXCEPT !.running = FALSE]

\* ------------------------------------------------------------ sender
\* timeout_value = min(timeout_value * 1.5, 5.0), scaled by 1000.  The only
\* product that is not a whole number (3375 * 1.5) lies above the ceiling.
\* Variant: the growth is not capped at the ceiling.
BackoffUncapped(t) == (t * BackoffNum) \div BackoffDen

Backoff(t) ==
    LET grown == (t * BackoffNum) \div BackoffDen
    IN  IF grown < TimeoutCeiling THEN grown ELSE TimeoutCeiling

\* History of one transmission of packet p for message index m.
Transmit(m, p) ==
    /\ c2s' = udt_send(c2s, p)
    /\ sent' = [sent EXCEPT ![m] = @ \cup {p}]
    /\ txCount' = txCount + 1
    /\ txTotal' = IF txTotal < 0 THEN txTotal ELSE txTotal + 1

\* for message_num in range(20): the head of one iteration builds the packet.
ClientFor ==
    /\ cpc = "for"
    /\ message_num < NumMessages
    /\ retries' = 0
    /\ ack_received' = FALSE
    /\ pkt' = DataPacket(message_num, seq)
    /\ txCount' = 0
    /\ cpc' = "while"
    /\ UNCHANGED <<message_num, seq, done_received, timeout_value, mytimer,
                   aborted, sent, verified_seqs, acked_msgs, done_runs,
                   c2s, s2c>>
    /\ UNCHANGED <<csock, exit_status, pending, txTotal, lastReply>>
    /\ UNCHANGED serverVars

\* The for loop is exhausted: control reaches the finally block.
ClientForExit ==
    /\ cpc = "for"
    /\ message_num = NumMessages
    /\ cpc' = "finally"
    /\ UNCHANGED <<message_num, seq, retries, ack_received, done_received,
                   timeout_value, mytimer, pkt, aborted, sent, txCount,
                   verified_seqs, acked_msgs, done_runs, c2s, s2c>>
    /\ UNCHANGED <<csock, exit_status, pending, txTotal, lastReply>>
    /\ UNCHANGED serverVars

\* while not ack_received and retries < max_retries: send, start the timer.
\* Variant: one attempt too many.
WhileGuardInclusive == ~ack_received /\ retries <= max_retries

WhileGuard == ~ack_received /\ retries < max_retries

\* Variant: the payload is rebuilt for every attempt from the retry counter.
OutgoingRebuilt ==
    make(seq, create_checksum(seq, MessageText(retries, seq)),
         MessageText(retries, seq))

\* The packet handed to udt.send: the one built before the while loop.
Outgoing == pkt

ClientSend ==
    /\ cpc = "while"
    /\ WhileGuard
    /\ Transmit(message_num, Outgoing)
    /\ mytimer' = TimerStart(mytimer)
    /\ cpc' = "wait"
    /\ UNCHANGED <<message_num, seq, retries, ack_received, done_received,
                   timeout_value, pkt, aborted, verified_seqs, acked_msgs,
                   done_runs, s2c>>
    /\ UNCHANGED <<csock, exit_status, pending, lastReply>>
    /\ UNCHANGED serverVars

\* No reply was dropped since the current wait loop began.
NoReply == [kind |-> "none"]

\* The sender's state at the moment its wait loop dropped a reply.
Dropped(kind) ==
    [kind |-> kind, cpc |-> cpc, seq |-> seq, retries |-> retries,
     timeout_value |-> timeout_value, mytimer |-> mytimer,
     txCount |-> txCount]

\* A reply the wait loop has to drop (the else branches of lines 87-94): it
\* fails verification or carries another sequence than the one sent.
Unwanted(d) == ~Intact(d) \/ d.seq # seq

\* Variant: the reply's checksum is not verified.
AckMatchesUnverified(d) == d.seq = seq

\* Variant: any verified reply counts, whatever its sequence.
AckMatchesAnySeq(d) == verify_checksum(d.seq, d.checksum, d.data)

\* The test of lines 83 and 87: the reply verifies and carries the sequence sent.
AckMatches(d) ==
    /\ verify_checksum(d.seq, d.checksum, d.data)
    /\ d.seq = seq

\* One poll of the wait loop that returns the datagram d.
ClientRecv(d) ==
    /\ cpc = "wait"
    /\ verified_seqs' = IF Intact(d) THEN verified_seqs \cup {d.seq}
                                     ELSE verified_seqs
    /\ IF AckMatches(d)
       THEN /\ ack_received' = TRUE
            /\ mytimer' = TimerStop(mytimer)
            /\ acked_msgs' = acked_msgs \cup {message_num}
            /\ cpc' = "while"
       ELSE UNCHANGED <<ack_received, mytimer, acked_msgs, cpc>>
    /\ UNCHANGED <<message_num, seq, retries, done_received, timeout_value,
                   pkt, aborted, sent, txCount, done_runs, c2s>>
    /\ lastReply' = IF Unwanted(d) THEN Dropped("dropped") ELSE NoReply
    /\ UNCHANGED <<csock, exit_status, pending, txTotal>>
    /\ UNCHANGED serverVars

\* The timer runs out: the wait loop ends, retries += 1, and from the second
\* retry on the timeout grows and a new Timer is made.
ClientTimeout ==
    /\ cpc = "wait"
    /\ retries' = retries + 1
    /\ IF retries' > 1
       THEN /\ timeout_value' = Backoff(timeout_value)
            /\ mytimer' = Timer(timeout_value')
       ELSE /\ timeout_value' = timeout_value
            /\ mytimer' = TimerStop(mytimer)
    /\ cpc' = "while"
    /\ UNCHANGED <<message_num, seq, ack_received, done_received, pkt,
                   aborted, sent, txCount, verified_seqs, acked_msgs, done_runs,
                   c2s, s2c>>
    /\ lastReply' = NoReply
    /\ UNCHANGED <<csock, exit_status, pending, txTotal>>
    /\ UNCHANGED serverVars

\* The while loop ends: break on a missing ACK, else the next sequence number
\* and the next iteration.
ClientWhileExit ==
    /\ cpc = "while"
    /\ ~WhileGuard
    /\ IF ~ack_received
       THEN /\ aborted' = TRUE
            /\ cpc' = "finally"
            /\ UNCHANGED <<seq, message_num>>
       ELSE /\ seq' = (seq + 1) % SeqModulus
            /\ message_num' = message_num + 1
            /\ cpc' = "for"
            /\ UNCHANGED aborted
    /\ UNCHANGED <<retries, ack_received, done_received, timeout_value,
                   mytimer, pkt, sent, txCount, verified_seqs, acked_msgs,
                   done_runs, c2s, s2c>>
    /\ UNCHANGED <<csock, exit_status, pending, txTotal, lastReply>>
    /\ UNCHANGED serverVars

\* Variant: the retry counter of the data loop is carried over.
FinallyRetriesKept == retries

\* retries = 0 of the finally block.
FinallyRetries == 0

\* finally: build the DONE packet at the current sequence, reset the counters.
ClientFinally ==
    /\ cpc = "finally"
    /\ pkt' = DonePacket(seq)
    /\ done_received' = FALSE
    /\ retries' = FinallyRetries
    /\ done_runs' = done_runs + 1
    /\ txCount' = 0
    /\ cpc' = "done_while"
    /\ UNCHANGED <<message_num, seq, ack_received, timeout_value, mytimer,
                   aborted, sent, verified_seqs, acked_msgs, c2s, s2c>>
    /\ UNCHANGED <<csock, exit_status, pending, txTotal, lastReply>>
    /\ UNCHANGED serverVars

\* Variant: one DONE attempt too many.
DoneGuardInclusive == ~done_received /\ retries <= max_retries

\* while not done_received and retries < max_retries: send DONE, start the timer.
DoneGuard == ~done_received /\ retries < max_retries

ClientDoneSend ==
    /\ cpc = "done_while"
    /\ DoneGuard
    /\ Transmit(DoneIdx, Outgoing)
    /\ mytimer' = TimerStart(mytimer)
    /\ cpc' = "done_wait"
    /\ UNCHANGED <<message_num, seq, retries, ack_received, done_received,
                   timeout_value, pkt, aborted, verified_seqs, acked_msgs,
                   done_runs, s2c>>
    /\ UNCHANGED <<csock, exit_status, pending, lastReply>>
    /\ UNCHANGED serverVars

\* One poll of the DONE wait loop that returns the datagram d.
ClientDoneRecv(d) ==
    /\ cpc = "done_wait"
    /\ verified_seqs' = IF Intact(d) THEN verified_seqs \cup {d.seq}
                                     ELSE verified_seqs
    /\ IF AckMatches(d)
       THEN /\ done_received' = TRUE
            /\ mytimer' = TimerStop(mytimer)
            /\ cpc' = "done_while"
       ELSE UNCHANGED <<done_received, mytimer, cpc>>
    /\ UNCHANGED <<message_num, seq, retries, ack_received, timeout_value,
                   pkt, aborted, sent, txCount, acked_msgs, done_runs, c2s>>
    /\ lastReply' = IF Unwanted(d) THEN Dropped("dropped") ELSE NoReply
    /\ UNCHANGED <<csock, exit_status, pending, txTotal>>
    /\ UNCHANGED serverVars

\* The timer runs out while waiting for the ACK of DONE: retries += 1, no backoff.
ClientDoneTimeout ==
    /\ cpc = "done_wait"
    /\ mytimer' = TimerStop(mytimer)
    /\ retries' = retries + 1
    /\ cpc' = "done_while"
    /\ UNCHANGED <<message_num, seq, ack_received, done_received,
                   timeout_value, pkt, aborted, sent, txCount, verified_seqs,
                   acked_msgs, done_runs, c2s, s2c>>
    /\ lastReply' = NoReply
    /\ UNCHANGED <<csock, exit_status, pending, txTotal>>
    /\ UNCHANGED serverVars

\* The status the process ends with once main() is left: 0 when main()
\* returns, 1 when an exception leaves it.
ExitStatus == IF pending THEN 1 ELSE 0

\* The DONE loop ends: sock.close(), the finally block is done, main() is left.
ClientClose ==
    /\ cpc = "done_while"
    /\ ~DoneGuard
    /\ cpc' = "closed"
    /\ csock' = "closed"
    /\ exit_status' = ExitStatus
    /\ UNCHANGED <<pending, txTotal, lastReply>>
    /\ UNCHANGED <<message_num, seq, retries, ack_received, done_received,
                   timeout_value, mytimer, pkt, aborted, sent, txCount,
                   verified_seqs, acked_msgs, done_runs, c2s, s2c>>
    /\ UNCHANGED serverVars

\* ---------------------------------------------------------- receiver
\* Variant: every verified packet is taken as new.
IsExpectedAny(d) == TRUE

\* if seq == expected_seq
IsExpected(d) == d.seq = expected_seq

\* Variant: the acknowledgement carries expected_seq.
ServerAcksExpected(d) == <<AckPacket(expected_seq)>>

\* Variant: the acknowledgement is sent twice.
ServerAcksTwice(d) == <<AckPacket(d.seq), AckPacket(d.seq)>>

\* The acknowledgements one iteration sends for a verified datagram d:
\* packet.make(seq, create_checksum(seq, "ACK-<seq>"), "ACK-<seq>").
ServerAcks(d) == <<AckPacket(d.seq)>>

\* Variant: DONE ends the loop only when its sequence is the expected one.
IsTerminationExpected(d) == d.data = DoneBytes /\ d.seq = expected_seq

\* if dataRcvd == b'DONE': break
IsTermination(d) == d.data = DoneBytes

\* One iteration of the server's while True loop on the received datagram d.
\* The break leads to the finally block, which closes the socket.
ServerRecv(d) ==
    /\ spc = "recv"
    /\ IF verify_checksum(d.seq, d.checksum, d.data)
       THEN /\ IF IsExpected(d)
               THEN /\ expected_seq' = (expected_seq + 1) % SeqModulus
                    /\ accepted' = Append(accepted, d.data)
               ELSE UNCHANGED <<expected_seq, accepted>>
            /\ s2c' = s2c \cup {ServerAcks(d)[i] : i \in 1..Len(ServerAcks(d))}
            /\ spc' = IF IsTermination(d) THEN "closed" ELSE "recv"
            /\ ssock' = IF IsTermination(d) THEN "closed" ELSE ssock
            /\ lastRx' = [kind |-> "rx", intact |-> Intact(d), seq |-> d.seq,
                          done |-> d.data = DoneBytes,
                          before |-> expected_seq, acks |-> ServerAcks(d)]
       ELSE /\ UNCHANGED <<expected_seq, accepted, s2c, spc, ssock>>
            /\ lastRx' = [kind |-> "rx", intact |-> Intact(d), seq |-> d.seq,
                          done |-> d.data = DoneBytes,
                          before |-> expected_seq, acks |-> <<>>]
    /\ UNCHANGED clientVars

\* ------------------------------------------------------------ failures
\* What a receive can raise besides "nothing received yet": a transport error
\* of udt.recv, or packet.extract on a blob shorter than the header.
RecvErrors == {"OSError", "MalformedPacket"}

\* A receive can fail with e: a transport error at any time, a decode failure
\* only on a datagram in flight (cut short on the way).
Raises(e, channel) == e \in RecvErrors /\ (e = "MalformedPacket" => channel # {})

\* The receiver's udt.recv or packet.extract raises e.  The except clause
\* of line 92 lies outside the while True loop: the loop is left, the error is
\* printed and the finally block closes the socket.
ServerRecvFails(e) ==
    /\ spc = "recv"
    /\ Raises(e, c2s)
    /\ spc' = "failed"
    /\ ssock' = "closed"
    /\ lastRx' = [kind |-> IF e = "MalformedPacket" THEN "malformed" ELSE "error",
                  intact |-> FALSE, seq |-> 0, done |-> FALSE,
                  before |-> expected_seq, acks |-> <<>>]
    /\ UNCHANGED <<expected_seq, accepted, c2s, s2c>>
    /\ UNCHANGED clientVars

\* The receiver's udt.send of the ACK raises (line 80) after a verified
\* datagram d was processed: no ACK leaves, the loop is left as above.
ServerSendFails(d) ==
    /\ spc = "recv"
    /\ verify_checksum(d.seq, d.checksum, d.data)
    /\ IF IsExpected(d)
       THEN /\ expected_seq' = (expected_seq + 1) % SeqModulus
            /\ accepted' = Append(accepted, d.data)
       ELSE UNCHANGED <<expected_seq, accepted>>
    /\ spc' = "failed"
    /\ ssock' = "closed"
    /\ lastRx' = [kind |-> "error", intact |-> Intact(d), seq |-> d.seq,
                  done |-> d.data = DoneBytes,
                  before |-> expected_seq, acks |-> <<>>]
    /\ UNCHANGED <<c2s, s2c>>
    /\ UNCHANGED clientVars

\* Variant: only transport errors are caught, a decode failure propagates.
CatchesTransportOnly(e) == e = "OSError"

\* except Exception as e (line 99) and the bare except (line 153) catch
\* every error a receive can raise.
Catches(e) == e \in RecvErrors

\* One poll of a wait loop (data phase or DONE phase) in which udt.recv or
\* packet.extract raises e: a caught error is printed (or slept on) and the
\* loop polls again; an uncaught one would leave main() through the finally
\* block (data phase) or at once (DONE phase).
ClientRecvFails(e) ==
    /\ cpc \in {"wait", "done_wait"}
    /\ Raises(e, s2c)
    /\ lastReply' = Dropped("failed")
    /\ IF Catches(e)
       THEN UNCHANGED <<cpc, pending, exit_status>>
       ELSE /\ pending' = TRUE
            /\ cpc' = IF cpc = "wait" THEN "finally" ELSE "crashed"
            /\ exit_status' = IF cpc = "wait" THEN exit_status ELSE 1
    /\ UNCHANGED <<message_num, seq, retries, ack_received, done_received,
                   timeout_value, mytimer, pkt, aborted, sent, txCount,
                   verified_seqs, acked_msgs, done_runs, csock, txTotal,
                   c2s, s2c>>
    /\ UNCHANGED serverVars

\* udt.send raises in the data loop (line 69): the try block is left, the
\* finally block runs with the error pending and main() re-raises it after.
ClientSendFails ==
    /\ cpc = "while"
    /\ WhileGuard
    /\ pending' = TRUE
    /\ cpc' = "finally"
    /\ UNCHANGED <<message_num, seq, retries, ack_received, done_received,
                   timeout_value, mytimer, pkt, aborted, sent, txCount,
                   verified_seqs, acked_msgs, done_runs, csock, exit_status,
                   txTotal, lastReply, c2s, s2c>>
    /\ UNCHANGED serverVars

\* udt.send raises in the DONE loop (line 139), inside the finally block:
\* the error leaves main() at once, sock.close() of line 162 is not reached.
ClientDoneSendFails ==
    /\ cpc = "done_while"
    /\ DoneGuard
    /\ pending' = TRUE
    /\ cpc' = "crashed"
    /\ exit_status' = 1
    /\ UNCHANGED <<message_num, seq, retries, ack_received, done_received,
                   timeout_value, mytimer, pkt, aborted, sent, txCount,
                   verified_seqs, acked_msgs, done_runs, csock,
                   txTotal, lastReply, c2s, s2c>>
    /\ UNCHANGED serverVars

\* ------------------------------------------------- network deliveries
\* udt.recv(sock) returns a datagram in flight, in any order, altered as
\* the channel allows (undetected: alterations may pass verification).  The
\* datagram stays in flight: the network may deliver it again (duplication,
\* delay) until it drops it (DropC2S, DropS2C).
ServerDeliver(undetected) ==
    /\ spc = "recv"
    /\ \E p \in c2s : \E d \in InTransit(p, undetected) :
        /\ ServerRecv(d)
        /\ UNCHANGED c2s

ClientDeliver(undetected) ==
    /\ cpc = "wait"
    /\ \E p \in s2c : \E d \in InTransit(p, undetected) :
        /\ ClientRecv(d)
        /\ UNCHANGED s2c

ClientDoneDeliver(undetected) ==
    /\ cpc = "done_wait"
    /\ \E p \in s2c : \E d \in InTransit(p, undetected) :
        /\ ClientDoneRecv(d)
        /\ UNCHANGED s2c

\* The network delivers no further copy of a datagram.
DropC2S == \E p \in c2s : c2s' = c2s \ {p} /\ UNCHANGED <<s2c>>
                          /\ UNCHANGED clientVars /\ UNCHANGED serverVars

DropS2C == \E p \in s2c : s2c' = s2c \ {p} /\ UNCHANGED <<c2s>>
                          /\ UNCHANGED clientVars /\ UNCHANGED serverVars

\* ------------------------------------------------------ specification
\* The state after construction: client.py lines 46-55, server.py lines 44-52.
Start ==
    /\ cpc = "for"
    /\ message_num = 0
    /\ seq = 0
    /\ retries = 0
    /\ ack_received = FALSE
    /\ done_received = FALSE
    /\ timeout_value = BaseTimeout
    /\ mytimer = Timer(BaseTimeout)
    /\ pkt = DataPacket(0, 0)
    /\ spc = "recv"
    /\ expected_seq = 0
    /\ c2s = {}
    /\ s2c = {}
    /\ aborted = FALSE
    /\ sent = [m \in 0..NumMessages |-> {}]
    /\ txCount = 0
    /\ verified_seqs = {}
    /\ acked_msgs = {}
    /\ done_runs = 0
    /\ accepted = <<>>
    /\ lastRx = [kind |-> "none", intact |-> FALSE, seq |-> 0, done |-> FALSE,
                 before |-> 0, acks |-> <<>>]
    /\ csock = "open"
    /\ ssock = "open"
    /\ exit_status = -1
    /\ pending = FALSE
    /\ lastReply = NoReply

\* The transmissions of the whole run are not counted (txTotal stays -1).
Init == Start /\ txTotal = -1

\* The transmissions of the whole run are counted from 0.
InitCounted == Start /\ txTotal = 0

ClientStep ==
    \/ ClientFor
    \/ ClientForExit
    \/ ClientSend
    \/ ClientTimeout
    \/ ClientWhileExit
    \/ ClientFinally
    \/ ClientDoneSend
    \/ ClientDoneTimeout
    \/ ClientClose

\* The channel loses, duplicates and reorders; every alteration is detected.
Next ==
    \/ ClientStep
    \/ ClientDeliver(FALSE)
    \/ ClientDoneDeliver(FALSE)
    \/ ServerDeliver(FALSE)
    \/ DropC2S
    \/ DropS2C

Spec == Init /\ [][Next]_vars

\* The channel may also deliver altered packets that pass verification.
NextCorrupt ==
    \/ ClientStep
    \/ ClientDeliver(TRUE)
    \/ ClientDoneDeliver(TRUE)
    \/ ServerDeliver(TRUE)
    \/ DropC2S
    \/ DropS2C

SpecCorrupt == Init /\ [][NextCorrupt]_vars

\* Receives and sends may also raise errors.  A datagram that is never
\* delivered is lost; every alteration is detected.
NextFaults ==
    \/ ClientStep
    \/ ClientDeliver(FALSE)
    \/ ClientDoneDeliver(FALSE)
    \/ ServerDeliver(FALSE)
    \/ \E e \in RecvErrors : ServerRecvFails(e)
    \/ \E p \in c2s : \E d \in InTransit(p, FALSE) : ServerSendFails(d)
    \/ \E e \in RecvErrors : ClientRecvFails(e)
    \/ ClientSendFails
    \/ ClientDoneSendFails

SpecFaults == Init /\ [][NextFaults]_vars

\* The sender against the channel: datagrams are delivered in any order, any
\* number of times or never, intact or altered so that verification fails,
\* and the transmissions of the run are counted.  The sender's process keeps running
\* and a started timer runs out: no sender step stays enabled forever.
NextRun ==
    \/ ClientStep
    \/ ClientDeliver(FALSE)
    \/ ClientDoneDeliver(FALSE)
    \/ ServerDeliver(FALSE)

SpecRun == InitCounted /\ [][NextRun]_vars /\ WF_vars(ClientStep)

\* ------------------------------------------------------------ claims
\* Sequence fields of all packets the sender has transmitted.
SentSeqs == {p.seq : p \in UNION {sent[m] : m \in 0..NumMessages}}

\* The payload of application message m: message m is sent at sequence m.
AppText(m) == MessageText(m, m % SeqModulus)

\* Positions of accepted at which application message m was accepted.
AcceptedAt(m) == {i \in 1..Len(accepted) : accepted[i] = AppText(m)}

\* C1: on a channel that may also alter any field of a packet, the receiver
\* accepts each application message at most once and in send order, and every
\* application message the sender treats as ACKed was accepted exactly once.
C1_ExactlyOnceInOrder ==
    /\ \A m \in 0..(NumMessages - 1) : Cardinality(AcceptedAt(m)) <= 1
    /\ \A m, n \in 0..(NumMessages - 1) :
           \A i \in AcceptedAt(m) : \A j \in AcceptedAt(n) :
               m < n => i < j
    /\ \A m \in acked_msgs : Cardinality(AcceptedAt(m)) = 1

\* C2: a packet with sequence n + 1 is transmitted only after a reply that
\* passes checksum verification and carries sequence n was received, and after
\* an abort at sequence n no packet with sequence n + 1 is transmitted.  (The
\* session starts at sequence 0, so n ranges over 0..254.)
C2_OneInFlight ==
    /\ \A n \in 0..(SeqModulus - 2) :
           (n + 1) \in SentSeqs => n \in verified_seqs
    /\ aborted => ((seq + 1) % SeqModulus) \notin SentSeqs

\* C2 witness: sequence 1 was transmitted and the transfer aborted there.
C2_Witness == aborted /\ seq = 1 /\ 1 \in SentSeqs

\* C3: when every alteration is detected and the sender obtained a matching
\* ACK for each of the NumMessages data messages and for DONE, the receiver
\* accepted exactly the data messages in send order and then DONE,
\* expected_seq is (NumMessages + 1) mod 256, and the receiver shut down in
\* the step that acknowledged DONE.
C3_Termination ==
    (acked_msgs = 0..(NumMessages - 1) /\ done_received) =>
        /\ accepted = [i \in 1..(NumMessages + 1) |->
                          IF i <= NumMessages THEN AppText(i - 1) ELSE DoneBytes]
        /\ expected_seq = (NumMessages + 1) % SeqModulus
        /\ spc = "closed"
        /\ lastRx.done
        /\ lastRx.acks = <<AckPacket(NumMessages % SeqModulus)>>

\* C3 witness: a run in which all data messages and DONE were ACKed.
C3_Witness == acked_msgs = 0..(NumMessages - 1) /\ done_received

\* C4: a receiver step on a datagram with a correct checksum whose sequence
\* differs from expected_seq leaves expected_seq unchanged and emits exactly
\* one ACK, carrying the datagram's sequence.
C4_DuplicateReAck ==
    (lastRx.kind = "rx" /\ lastRx.intact /\ lastRx.seq # lastRx.before) =>
        /\ expected_seq = lastRx.before
        /\ Len(lastRx.acks) = 1
        /\ lastRx.acks[1].seq = lastRx.seq
        /\ Intact(lastRx.acks[1])

\* C4 witness: the receiver processed an already accepted sequence.
C4_Witness ==
    /\ lastRx.kind = "rx" /\ lastRx.intact
    /\ lastRx.seq < lastRx.before

\* C5: a receiver step on a datagram whose checksum field differs from the
\* digest of its payload emits no ACK, leaves expected_seq unchanged and does
\* not shut the receiver down, even if the payload is DONE: the receiver is
\* back at waiting for a packet.
C5_CorruptDropped ==
    (lastRx.kind = "rx" /\ ~lastRx.intact) =>
        /\ lastRx.acks = <<>>
        /\ expected_seq = lastRx.before
        /\ spc = "recv"

\* C5 witness: a DONE packet with a tampered checksum field was processed.
C5_Witness == lastRx.kind = "rx" /\ ~lastRx.intact /\ lastRx.done

\* Sender positions of the data loop and of the termination handshake.
DataPhase == {"for", "while", "wait"}
DonePhase == {"done_while", "done_wait", "closed"}

\* C6: an abort happens after max_retries transmissions of the message that
\* got no matching ACK, no later data message is ever transmitted, and in
\* every run the DONE handshake is run exactly once, its retry count starting
\* at 0 and allowing up to max_retries transmissions of DONE.
C6_RetryExhaustion ==
    /\ (aborted /\ cpc = "finally") =>
           /\ txCount = max_retries
           /\ message_num \notin acked_msgs
    /\ aborted =>
           /\ cpc \notin DataPhase
           /\ \A m \in (message_num + 1)..(NumMessages - 1) : sent[m] = {}
    /\ done_runs = (IF cpc \in DonePhase THEN 1 ELSE 0)
    /\ cpc = "done_while" => txCount = retries + (IF done_received THEN 1 ELSE 0)
    /\ cpc = "done_wait" => txCount = retries + 1
    /\ cpc \in DonePhase => txCount <= max_retries
    /\ cpc = "closed" =>
           /\ sent[DoneIdx] = {DonePacket(seq)}
           /\ done_received \/ txCount = max_retries

\* C6 witness: the data loop aborted and DONE was then transmitted
\* max_retries times without an ACK.
C6_Witness ==
    aborted /\ cpc = "closed" /\ ~done_received /\ txCount = max_retries

\* C7: retries never exceeds max_retries, no message (data or DONE) is
\* transmitted more than max_retries times, and a data message whose retries
\* reach max_retries ends the whole transfer: the sender's next step leaves
\* the data loop for good, with the message index and sequence unchanged.
C7_RetryBound ==
    /\ [](retries <= max_retries /\ txCount <= max_retries)
    /\ []((cpc \in DataPhase /\ retries = max_retries) =>
              (cpc = "while" /\ ~ack_received))
    /\ [][(cpc = "while" /\ retries = max_retries /\ cpc' # cpc) =>
              (cpc' = "finally" /\ aborted' /\ message_num' = message_num
               /\ seq' = seq)]_vars
    /\ [][aborted => (aborted' /\ cpc' \notin DataPhase)]_vars

\* C7 witness: a data message used up its retries and the transfer aborted.
C7_Witness ==
    cpc = "finally" /\ aborted /\ retries = max_retries /\ message_num = 1

\* C8: when the sender begins a new message after the previous one was
\* ACKed, timeout_value is the base timeout.
C8_TimeoutResetPerMessage ==
    (cpc = "while" /\ txCount = 0 /\ message_num >= 1) =>
        timeout_value = BaseTimeout

\* min(t * 1.5, ceiling) in the scaled integers.
CappedGrowth(t) ==
    IF BackoffNum * t >= BackoffDen * TimeoutCeiling
    THEN TimeoutCeiling
    ELSE (BackoffNum * t) \div BackoffDen

C10_IdempotentRetransmission ==
    \A m \in 0..NumMessages : Cardinality(sent[m]) <= 1

\* C10 witness: a data message and DONE were each transmitted more than once.
C10_Witness ==
    /\ aborted /\ cpc = "done_wait" /\ txCount >= 2
    /\ sent[message_num] # {}

\* C11: the receiver's step on a datagram with a correct checksum emits
\* exactly one ACK, whose sequence field is the datagram's sequence (not
\* expected_seq); expected_seq changes only in such a step whose datagram
\* carries expected_seq, and then becomes (expected_seq + 1) mod 256.
C11_AckEveryValid ==
    /\ lastRx.kind = "none" => expected_seq = 0
    /\ lastRx.kind = "rx" =>
           expected_seq = (IF lastRx.intact /\ lastRx.seq = lastRx.before
                           THEN (lastRx.before + 1) % SeqModulus
                           ELSE lastRx.before)
    /\ (lastRx.kind = "rx" /\ lastRx.intact) =>
           lastRx.acks = <<make(lastRx.seq, ZFill(BitSum(AckText(lastRx.seq))),
                                AckText(lastRx.seq))>>

\* C11 witness: an out-of-order packet was acknowledged with its own
\* sequence after expected_seq had advanced.
C11_Witness ==
    /\ lastRx.kind = "rx" /\ lastRx.intact
    /\ lastRx.seq # lastRx.before /\ lastRx.before >= 1
    /\ lastRx.acks # <<>>

\* C12: a DONE datagram with a correct checksum, whether or not its sequence
\* is the expected one, is acknowledged in the step that shuts the receiver
\* down; after the shutdown the receiver processes no packet, sends no ACK
\* and never changes expected_seq.
C12_Shutdown ==
    /\ []((lastRx.kind = "rx" /\ lastRx.intact /\ lastRx.done) =>
              (spc = "closed" /\ Len(lastRx.acks) = 1
               /\ lastRx.acks[1].seq = lastRx.seq))
    /\ [](spc = "closed" => (lastRx.intact /\ lastRx.done))
    /\ [][spc = "closed" =>
              (spc' = "closed" /\ expected_seq' = expected_seq
               /\ lastRx' = lastRx /\ accepted' = accepted
               /\ s2c' \subseteq s2c)]_vars

\* C12 witness: the receiver shut down on a DONE whose sequence was not the
\* expected one.
C12_Witness ==
    /\ spc = "closed" /\ lastRx.done
    /\ lastRx.seq # lastRx.before

\* C13: when decoding a received blob fails at the receiver, the receiver
\* treats it as a dropped packet: no ACK is sent, expected_seq is unchanged,
\* the receiver is still in its receive loop with its socket open, ready to
\* serve the packets that arrive afterwards.
C13_MalformedDropped ==
    lastRx.kind = "malformed" =>
        /\ spc = "recv"
        /\ ssock = "open"
        /\ expected_seq = lastRx.before
        /\ lastRx.acks = <<>>

\* C14: a run whose data phase ended on retry exhaustion ends with a non-zero
\* exit status, and a run in which every data message was ACKed ends with
\* exit status zero.
C14_ExitOutcome ==
    cpc = "closed" =>
        /\ aborted => exit_status # 0
        /\ (~aborted /\ acked_msgs = 0..(NumMessages - 1)) => exit_status = 0

\* C15: once the sender or the receiver has ended, on whatever path (normal
\* end, or a transport send or receive that raised in the data loop or in the
\* termination handshake), its datagram socket is closed.
C15_SocketClosed ==
    /\ cpc \in {"closed", "crashed"} => csock = "closed"
    /\ spc \in {"closed", "failed"} => ssock = "closed"

\* C16: a reply that fails verification or carries another sequence than the
\* one awaited is dropped: as long as nothing else happens at the sender it is
\* still in the same wait loop with the same seq, retries and timeout_value,
\* the timer is the one started at the transmission and still runs, and no
\* further transmission was made.
C16_DroppedReply ==
    lastReply.kind = "dropped" =>
        /\ cpc \in {"wait", "done_wait"}
        /\ cpc = lastReply.cpc
        /\ seq = lastReply.seq
        /\ retries = lastReply.retries
        /\ timeout_value = lastReply.timeout_value
        /\ mytimer = lastReply.mytimer
        /\ mytimer.running
        /\ txCount = lastReply.txCount

\* A reply was dropped in the data phase at a sequence above 0 after a
\* retransmission, with an ACK of another sequence in flight.
C16_Witness ==
    /\ lastReply.kind = "dropped"
    /\ cpc = "wait"
    /\ retries >= 1
    /\ seq >= 1
    /\ \E p \in s2c : p.seq # seq

\* C17: when receiving or decoding a reply fails at the sender, in the data
\* phase or in the DONE phase, the failure counts as no reply: the sender is
\* still in the same wait loop with the same seq, retries, timeout_value and
\* running timer, it made no transmission, and its run has not ended.
C17_RecvFailureIsNoReply ==
    lastReply.kind = "failed" =>
        /\ cpc \in {"wait", "done_wait"}
        /\ cpc = lastReply.cpc
        /\ seq = lastReply.seq
        /\ retries = lastReply.retries
        /\ timeout_value = lastReply.timeout_value
        /\ mytimer = lastReply.mytimer
        /\ mytimer.running
        /\ txCount = lastReply.txCount
        /\ csock = "open"
        /\ exit_status = -1

\* A receive failed in the DONE phase after a retransmission of DONE, with a
\* reply in flight.
C17_Witness ==
    /\ lastReply.kind = "failed"
    /\ cpc = "done_wait"
    /\ retries >= 1
    /\ s2c # {}

\* C18: whatever the channel does, when a started timer eventually runs out
\* the sender eventually ends the data phase and the DONE handshake and closes
\* its socket, and it never makes more than max_retries * (NumMessages + 1)
\* transmissions.
C18_SenderTerminates ==
    /\ <>(cpc = "closed" /\ csock = "closed")
    /\ [](txTotal <= max_retries * (NumMessages + 1))

\* The sender has closed after the largest number of transmissions: every
\* data message was ACKed on its last attempt and DONE was never ACKed.
C18_Witness ==
    /\ cpc = "closed"
    /\ csock = "closed"
    /\ txTotal = max_retries * (NumMessages + 1)

\* C19: whenever the sender holds the termination message as acknowledged
\* (done_received), the receiver has received a DONE packet with a correct
\* checksum and has shut down; also after an abort at sequence n, where DONE
\* is sent with sequence n.
C19_DoneAckMeansShutdown ==
    done_received =>
        /\ spc = "closed"
        /\ lastRx.kind = "rx" /\ lastRx.intact /\ lastRx.done

\* C20: when no altered packet passes verification and fewer than 256
\* messages are sent, the receiver's expected_seq is the sender's seq or one
\* above it: the receiver is never behind the sender and never more than one
\* message ahead.
C20_SeqWindow ==
    /\ seq <= expected_seq
    /\ expected_seq <= seq + 1

\* The receiver is one ahead of a sender that is past its first message, and
\* then level with it again after the ACK.
C20_Witness ==
    /\ seq >= 1
    /\ expected_seq = seq + 1
    /\ cpc = "wait"
    /\ retries >= 1

====
